---- MODULE Spec2Model ----
(***************************************************************************)
(* Model of Sales_insights/main.py: the load -> clean -> time features ->  *)
(* aggregation -> report -> plots pipeline over a pandas DataFrame.        *)
(*                                                                         *)
(* A DataFrame is [columns, rows]: columns is the sequence of column       *)
(* labels, each row is [index, values] with values aligned to columns      *)
(* (index is the pandas row label, which filtering keeps).  Text is a      *)
(* sequence of one-character strings, so that parsing and formatting are   *)
(* computed.  A cell is Null (NaN/NaT/None), Num(v), Str(s) or Date(y,m,d).*)
(* Revenue values are integers; the mean is kept as an exact fraction.     *)
(* Input tables have column labels that stay distinct after strip().       *)
(***************************************************************************)
EXTENDS Integers, Sequences, FiniteSets, TLC

VARIABLES raw, df, stage, call,
          path, pc, trace, stats, top_products, monthly_sales, out, charts, err

vars == <<raw, df, stage, call,
          path, pc, trace, stats, top_products, monthly_sales, out, charts, err>>

apiVars == <<df, stage, call>>
mainVars == <<path, pc, trace, stats, top_products, monthly_sales, out, charts, err>>

\* ------------------------------------------------------------------ bounds
MaxRows == 3
MaxN == 2

\* ------------------------------------------------------------------ CONFIG
DATE_COLUMN == <<"ORDERDATE">>
PRODUCT_COLUMN == <<"PRODUCTLINE">>
QTY_COLUMN == <<"QUANTITYORDERED">>
PRICE_COLUMN == <<"PRICEEACH">>
SALES_COLUMN == <<"SALES">>
TopN == 10
ReportTop == 5

\* ------------------------------------------------------------------ values
Null == [t |-> "null"]
Num(v) == [t |-> "num", v |-> v]
Str(s) == [t |-> "str", s |-> s]
Date(y, m, d) == [t |-> "date", y |-> y, m |-> m, d |-> d]

isna(x) == x.t = "null"

Digits == <<"0", "1", "2", "3", "4", "5", "6", "7", "8", "9">>

IsDigit(c) == \E i \in 1..10 : Digits[i] = c

DigitVal(c) == (CHOOSE i \in 1..10 : Digits[i] = c) - 1

\* code point order of the characters that occur in the model's text
CharCode(c) ==
  CASE c = " " -> 32
    [] c = "-" -> 45
    [] IsDigit(c) -> 48 + DigitVal(c)
    [] c = "C" -> 67
    [] c = "M" -> 77
    [] c = "N" -> 78
    [] c = "S" -> 83
    [] c = "T" -> 84
    [] c = "a" -> 97
    [] c = "b" -> 98
    [] c = "d" -> 100
    [] c = "x" -> 120
    [] OTHER -> 0

RECURSIVE StrLess(_, _)
StrLess(a, b) ==
  IF b = <<>> THEN FALSE
  ELSE IF a = <<>> THEN TRUE
  ELSE IF CharCode(Head(a)) # CharCode(Head(b))
       THEN CharCode(Head(a)) < CharCode(Head(b))
  ELSE StrLess(Tail(a), Tail(b))

RECURSIVE DigitsVal(_)
DigitsVal(s) ==
  IF s = <<>> THEN 0 ELSE 10 * DigitsVal(SubSeq(s, 1, Len(s) - 1)) + DigitVal(s[Len(s)])

AllDigits(s) == s # <<>> /\ \A i \in 1..Len(s) : IsDigit(s[i])

\* pd.to_numeric(series, errors="coerce") on one cell
to_numeric(x) ==
  CASE x.t = "num" -> x
    [] x.t = "str" ->
         IF AllDigits(x.s) THEN Num(DigitsVal(x.s))
         ELSE IF Len(x.s) > 1 /\ x.s[1] = "-" /\ AllDigits(Tail(x.s))
              THEN Num(0 - DigitsVal(Tail(x.s)))
         ELSE Null
    [] OTHER -> Null

\* .fillna(0) on one cell
fillna0(x) == IF isna(x) THEN Num(0) ELSE x

IsLeap(y) == (y % 4 = 0 /\ y % 100 # 0) \/ y % 400 = 0

DaysInMonth(y, m) ==
  IF m = 2 THEN (IF IsLeap(y) THEN 29 ELSE 28)
  ELSE IF m \in {4, 6, 9, 11} THEN 30 ELSE 31

\* pd.to_datetime(series, errors="coerce") on one cell: ISO "YYYY-MM-DD" text
to_datetime(x) ==
  CASE x.t = "date" -> x
    [] x.t = "str" ->
         IF /\ Len(x.s) = 10
            /\ x.s[5] = "-" /\ x.s[8] = "-"
            /\ AllDigits(SubSeq(x.s, 1, 4))
            /\ AllDigits(SubSeq(x.s, 6, 7))
            /\ AllDigits(SubSeq(x.s, 9, 10))
         THEN LET y == DigitsVal(SubSeq(x.s, 1, 4))
                  m == DigitsVal(SubSeq(x.s, 6, 7))
                  d == DigitsVal(SubSeq(x.s, 9, 10))
              IN IF m \in 1..12 /\ d \in 1..DaysInMonth(y, m) THEN Date(y, m, d) ELSE Null
         ELSE Null
    [] OTHER -> Null

RECURSIVE ZeroPad(_, _)
\* format(n, "0{w}d") for n >= 0
ZeroPad(n, w) ==
  IF w = 0 THEN (IF n = 0 THEN <<>> ELSE ZeroPad(n \div 10, 0) \o <<Digits[(n % 10) + 1]>>)
  ELSE IF n = 0 THEN [i \in 1..w |-> "0"]
  ELSE ZeroPad(n \div 10, w - 1) \o <<Digits[(n % 10) + 1]>>

\* .dt.to_period("M").astype(str) on one cell
to_period_M_str(x) ==
  IF x.t = "date" THEN Str(ZeroPad(x.y, 4) \o <<"-">> \o ZeroPad(x.m, 2))
  ELSE Str(<<"N", "a", "T">>)

dt_year(x) == IF x.t = "date" THEN Num(x.y) ELSE Null

dt_month(x) == IF x.t = "date" THEN Num(x.m) ELSE Null

IsSpace(c) == c \in {" ", "\t", "\n"}

RECURSIVE lstrip(_)
lstrip(s) == IF s # <<>> /\ IsSpace(Head(s)) THEN lstrip(Tail(s)) ELSE s

RECURSIVE rstrip(_)
rstrip(s) ==
  IF s # <<>> /\ IsSpace(s[Len(s)]) THEN rstrip(SubSeq(s, 1, Len(s) - 1)) ELSE s

\* str.strip() on a column label (a sequence of label pieces and blanks)
strip(s) == rstrip(lstrip(s))

\* ------------------------------------------------------------------ DataFrame
\* name in df.columns
HasCol(t, name) == \E i \in 1..Len(t.columns) : t.columns[i] = name

ColPos(t, name) == CHOOSE i \in 1..Len(t.columns) : t.columns[i] = name

\* df[name] of one row
Cell(t, r, name) == r.values[ColPos(t, name)]

\* df[name] as a sequence of cells
Column(t, name) == [i \in DOMAIN t.rows |-> Cell(t, t.rows[i], name)]

\* df[name] = vals (one value per row): replaces the column, or appends a new one
SetCol(t, name, vals) ==
  IF HasCol(t, name)
  THEN [t EXCEPT !.rows = [i \in DOMAIN @ |->
          [@[i] EXCEPT !.values[ColPos(t, name)] = vals[i]]]]
  ELSE [columns |-> Append(t.columns, name),
        rows |-> [i \in DOMAIN t.rows |->
          [t.rows[i] EXCEPT !.values = Append(@, vals[i])]]]

RECURSIVE SelectRows(_, _)
SelectRows(rows, mask) ==
  IF rows = <<>> THEN <<>>
  ELSE (IF Head(mask) THEN <<Head(rows)>> ELSE <<>>) \o SelectRows(Tail(rows), Tail(mask))

\* df[mask]: the rows where the mask holds, labels and order kept
Filter(t, mask) == [t EXCEPT !.rows = SelectRows(@, mask)]

AllNull(r) == \A i \in 1..Len(r.values) : isna(r.values[i])

\* the row-level effect of dropna(how="all")
dropna_all(t) == Filter(t, [i \in DOMAIN t.rows |-> ~AllNull(t.rows[i])])

\* A call's view of its DataFrame argument: `caller` is the object the caller
\* passed, `local` the object the function's name df is bound to, `shared` says
\* that both are the same object, so that an in-place change reaches the caller.
Bind(t) == [caller |-> t, local |-> t, shared |-> TRUE]

\* fault: the copy is skipped, df stays the caller's object
copy_alias(fr) == fr

\* df = df.copy()
copy(fr) == [fr EXCEPT !.shared = FALSE]

\* an in-place change of the object bound to df, which then holds t
InPlace(fr, t) == [fr EXCEPT !.local = t, !.caller = IF fr.shared THEN t ELSE @]

\* df = <a new DataFrame>
Rebind(fr, t) == [fr EXCEPT !.local = t, !.shared = FALSE]

\* fault: the mask df[SALES_COLUMN] >= 0
SalesPositive_ge(v) == v.t = "num" /\ v.v >= 0

\* the mask df[SALES_COLUMN] > 0 on one value
SalesPositive(v) == v.t = "num" /\ v.v > 0

\* fault: quantity + price
derive_sales_sum(q, p) ==
  IF q.t = "num" /\ p.t = "num" THEN Num(q.v + p.v) ELSE Null

\* df[QTY_COLUMN] * df[PRICE_COLUMN] on one row (NaN when a factor is NaN)
derive_sales(q, p) ==
  IF q.t = "num" /\ p.t = "num" THEN Num(q.v * p.v) ELSE Null

\* fault: the coercion without .fillna(0)
coerce_number_nan(x) == to_numeric(x)

\* pd.to_numeric(..., errors="coerce").fillna(0) on one cell
coerce_number(x) == fillna0(to_numeric(x))

\* fault: the rows with NaT dates are kept
date_mask_all(x) == TRUE

\* df[DATE_COLUMN].notna() on one value
date_mask(x) == ~isna(x)

\* df[name] = pd.to_numeric(df[name], errors="coerce").fillna(0)
coerce_column(t, name) ==
  LET col == Column(t, name)
  IN SetCol(t, name, [i \in DOMAIN col |-> coerce_number(col[i])])

clean_numeric(fr) ==
  LET f1 == IF HasCol(fr.local, QTY_COLUMN)
            THEN InPlace(fr, coerce_column(fr.local, QTY_COLUMN))
            ELSE fr
  IN IF HasCol(f1.local, PRICE_COLUMN)
     THEN InPlace(f1, coerce_column(f1.local, PRICE_COLUMN))
     ELSE f1

clean_date(fr) ==
  IF HasCol(fr.local, DATE_COLUMN)
  THEN LET col == Column(fr.local, DATE_COLUMN)
           f1 == InPlace(fr, SetCol(fr.local, DATE_COLUMN,
                                    [i \in DOMAIN col |-> to_datetime(col[i])]))
           dates == Column(f1.local, DATE_COLUMN)
       IN Rebind(f1, Filter(f1.local, [i \in DOMAIN dates |-> date_mask(dates[i])]))
  ELSE fr

\* fault: a SALES column of zeros is created whenever it is missing
create_sales_default(fr) ==
  IF ~HasCol(fr.local, SALES_COLUMN)
  THEN InPlace(fr, SetCol(fr.local, SALES_COLUMN, [i \in DOMAIN fr.local.rows |-> Num(0)]))
  ELSE fr

create_sales(fr) ==
  IF ~HasCol(fr.local, SALES_COLUMN)
     /\ \A col \in {QTY_COLUMN, PRICE_COLUMN} : HasCol(fr.local, col)
  THEN LET q == Column(fr.local, QTY_COLUMN)
           p == Column(fr.local, PRICE_COLUMN)
       IN InPlace(fr, SetCol(fr.local, SALES_COLUMN,
                             [i \in DOMAIN q |-> derive_sales(q[i], p[i])]))
  ELSE fr

clean_sales(fr) ==
  IF HasCol(fr.local, SALES_COLUMN)
  THEN LET f1 == InPlace(fr, coerce_column(fr.local, SALES_COLUMN))
           sales == Column(f1.local, SALES_COLUMN)
       IN Rebind(f1, Filter(f1.local, [i \in DOMAIN sales |-> SalesPositive(sales[i])]))
  ELSE fr

\* clean_data(df): [err, ret, arg] with arg the caller's table after the call
clean_data(t) ==
  LET f1 == copy(Bind(t))
      f2 == InPlace(f1, [f1.local EXCEPT !.columns = [i \in DOMAIN @ |-> strip(@[i])]])
      f3 == InPlace(f2, dropna_all(f2.local))
      f4 == clean_numeric(f3)
      f5 == clean_date(f4)
      f6 == create_sales(f5)
      f7 == clean_sales(f6)
  IN [err |-> "none", ret |-> f7.local, arg |-> f7.caller]

NoTable == [columns |-> <<>>, rows |-> <<>>]

\* add_time_features(df): [err, ret, arg]
add_time_features(t) ==
  LET f1 == copy(Bind(t))
  IN IF ~HasCol(f1.local, DATE_COLUMN)
     THEN [err |-> "KeyError", ret |-> NoTable, arg |-> f1.caller]
     ELSE LET d == Column(f1.local, DATE_COLUMN)
              f2 == InPlace(f1, SetCol(f1.local, <<"Year">>,
                                       [i \in DOMAIN d |-> dt_year(d[i])]))
              f3 == InPlace(f2, SetCol(f2.local, <<"Month">>,
                                       [i \in DOMAIN d |-> dt_month(d[i])]))
              f4 == InPlace(f3, SetCol(f3.local, <<"YearMonth">>,
                                       [i \in DOMAIN d |-> to_period_M_str(d[i])]))
          IN [err |-> "none", ret |-> f4.local, arg |-> f4.caller]

\* ------------------------------------------------------------------ ANALYSIS
RECURSIVE SumNums(_)
\* Series.sum(): the sum of the non-null numbers of a sequence of cells
SumNums(vals) ==
  IF vals = <<>> THEN 0
  ELSE (IF Head(vals).t = "num" THEN Head(vals).v ELSE 0) + SumNums(Tail(vals))

\* Series.count(): how many cells are not null
CountNums(vals) == Cardinality({i \in 1..Len(vals) : ~isna(vals[i])})

\* the group keys of groupby(name): the distinct non-null values
GroupKeys(t, name) == {Cell(t, t.rows[i], name) : i \in DOMAIN t.rows} \ {Null}

RECURSIVE SortKeys(_)
\* the keys in ascending order (groupby sorts its keys)
SortKeys(S) ==
  IF S = {} THEN <<>>
  ELSE LET k == CHOOSE x \in S : \A y \in S \ {x} : StrLess(x.s, y.s)
       IN <<k>> \o SortKeys(S \ {k})

\* groupby(name)[SALES_COLUMN].sum() for the group of key k
GroupSum(t, name, k) ==
  LET keys == Column(t, name)
  IN SumNums(Column(Filter(t, [i \in DOMAIN keys |-> keys[i] = k]), SALES_COLUMN))

\* df.groupby(name)[SALES_COLUMN].sum(): [key, total] per group, keys ascending
groupby_sum(t, name) ==
  LET ks == SortKeys(GroupKeys(t, name))
  IN [i \in DOMAIN ks |-> [key |-> ks[i], total |-> GroupSum(t, name, ks[i])]]

\* fault: the grouped sums are left in key order
sort_values_desc_unsorted(s) == {s}

\* .sort_values(ascending=False): every order of the entries with non-increasing
\* totals (the order of equal totals is left to the sort routine)
sort_values_desc(s) ==
  {[i \in DOMAIN s |-> s[p[i]]] : p \in
     {q \in [DOMAIN s -> DOMAIN s] :
        /\ \A i, j \in DOMAIN s : i # j => q[i] # q[j]
        /\ \A i \in 1..(Len(s) - 1) : s[q[i]].total >= s[q[i + 1]].total}}

\* .head(n) for n >= 0
head(s, n) == SubSeq(s, 1, IF n < Len(s) THEN n ELSE Len(s))

\* get_top_products(df, top_n): the set of possible outcomes [err, ret]
get_top_products(t, n) ==
  IF ~HasCol(t, PRODUCT_COLUMN) THEN {[err |-> "KeyError", ret |-> <<>>]}
  ELSE IF ~HasCol(t, SALES_COLUMN) THEN {[err |-> "KeyError", ret |-> <<>>]}
  ELSE {[err |-> "none", ret |-> head(s, n)] :
          s \in sort_values_desc(groupby_sum(t, PRODUCT_COLUMN))}

\* fault: the buckets in descending order
sort_by_bucket_desc(s) == [i \in DOMAIN s |-> s[Len(s) + 1 - i]]

\* .sort_values("YearMonth") of the grouped sums: ascending by bucket text
sort_by_bucket(s) ==
  LET ks == SortKeys({s[i].key : i \in DOMAIN s})
  IN [i \in DOMAIN ks |-> CHOOSE e \in {s[j] : j \in DOMAIN s} : e.key = ks[i]]

\* get_monthly_trends(df): [err, ret]
get_monthly_trends(t) ==
  IF ~HasCol(t, <<"YearMonth">>) THEN [err |-> "KeyError", ret |-> <<>>]
  ELSE IF ~HasCol(t, SALES_COLUMN) THEN [err |-> "KeyError", ret |-> <<>>]
  ELSE [err |-> "none", ret |-> sort_by_bucket(groupby_sum(t, <<"YearMonth">>))]

NaN == [nan |-> TRUE]

\* fault: 0 for the mean of no values
mean_zero_when_empty(vals) ==
  IF CountNums(vals) = 0 THEN [nan |-> FALSE, num |-> 0, den |-> 1]
  ELSE [nan |-> FALSE, num |-> SumNums(vals), den |-> CountNums(vals)]

\* Series.mean(): NaN without values, else the fraction num/den
mean(vals) ==
  IF CountNums(vals) = 0 THEN NaN
  ELSE [nan |-> FALSE, num |-> SumNums(vals), den |-> CountNums(vals)]

None == [none |-> TRUE]

Count(n) == [none |-> FALSE, n |-> n]

NoStats == [total_rows |-> 0, total_revenue |-> 0, avg_order_value |-> NaN,
            unique_products |-> None]

\* get_basic_stats(df): [err, ret]
get_basic_stats(t) ==
  IF ~HasCol(t, SALES_COLUMN) THEN [err |-> "KeyError", ret |-> NoStats]
  ELSE [err |-> "none",
        ret |-> [total_rows |-> Len(t.rows),
                 total_revenue |-> SumNums(Column(t, SALES_COLUMN)),
                 avg_order_value |-> mean(Column(t, SALES_COLUMN)),
                 unique_products |->
                   IF HasCol(t, PRODUCT_COLUMN)
                   THEN Count(Cardinality(GroupKeys(t, PRODUCT_COLUMN)))
                   ELSE None]]

\* ------------------------------------------------------------------ inputs
\* Rows a sales file can hold: numbers, numeric text, unparseable text, missing
\* values, an impossible date, a leap day, an empty line.
Samples ==
  <<
     [date |-> Str(<<"2", "0", "0", "3", "-", "0", "1", "-", "0", "6">>),
      product |-> Str(<<"M">>), qty |-> Num(3), price |-> Num(2), sales |-> Num(6)],
     [date |-> Str(<<"2", "0", "0", "3", "-", "0", "1", "-", "0", "9">>),
      product |-> Str(<<"C">>), qty |-> Str(<<"2">>), price |-> Num(3), sales |-> Str(<<"6">>)],
     [date |-> Str(<<"2", "0", "0", "3", "-", "0", "2", "-", "0", "1">>),
      product |-> Str(<<"M">>), qty |-> Str(<<"b", "a", "d">>), price |-> Num(2), sales |-> Num(4)],
     [date |-> Str(<<"2", "0", "0", "3", "-", "1", "3", "-", "0", "1">>),
      product |-> Str(<<"C">>), qty |-> Num(1), price |-> Num(1), sales |-> Str(<<"x">>)],
     [date |-> Null,
      product |-> Null, qty |-> Null, price |-> Null, sales |-> Null],
     [date |-> Str(<<"2", "0", "0", "2", "-", "1", "1", "-", "3", "0">>),
      product |-> Null, qty |-> Null, price |-> Num(2), sales |-> Num(4)],
     [date |-> Str(<<"2", "0", "0", "4", "-", "0", "2", "-", "2", "9">>),
      product |-> Str(<<"S">>), qty |-> Str(<<"-", "1">>), price |-> Num(2), sales |-> Str(<<"-", "2">>)]
  >>

Col(label, field) == [label |-> label, field |-> field]

\* Column layouts of the input file; labels may carry blanks around the name.
Schemas ==
  {<<Col(<<"ORDERDATE">>, "date"), Col(<<"PRODUCTLINE">>, "product"),
     Col(<<"QUANTITYORDERED">>, "qty"), Col(<<"PRICEEACH">>, "price"),
     Col(<<"SALES">>, "sales")>>,
   <<Col(<<" ", "ORDERDATE">>, "date"), Col(<<"PRODUCTLINE", " ">>, "product"),
     Col(<<" ", "QUANTITYORDERED", " ">>, "qty"), Col(<<"PRICEEACH", " ", " ">>, "price")>>,
   <<Col(<<"ORDERDATE">>, "date"), Col(<<"PRODUCTLINE">>, "product"),
     Col(<<"QUANTITYORDERED">>, "qty")>>,
   <<Col(<<"PRODUCTLINE">>, "product"), Col(<<"PRICEEACH">>, "price"),
     Col(<<"QUANTITYORDERED">>, "qty"), Col(<<" ", "SALES", " ">>, "sales")>>,
   <<Col(<<"ORDERDATE">>, "date"), Col(<<"SALES">>, "sales"),
     Col(<<"QUANTITYORDERED">>, "qty")>>,
   <<Col(<<"ORDER", " ", "DATE">>, "date"), Col(<<"PRODUCTLINE">>, "product"),
     Col(<<"QUANTITYORDERED">>, "qty"), Col(<<"PRICEEACH">>, "price")>>,
   <<Col(<<"PRODUCTLINE">>, "product"), Col(<<"QUANTITYORDERED">>, "qty")>>}

\* the table read from a file with layout sch whose lines are Samples[picks[i]]
RawTable(sch, picks) ==
  [columns |-> [j \in DOMAIN sch |-> sch[j].label],
   rows |-> [i \in DOMAIN picks |->
      [index |-> i - 1,
       values |-> [j \in DOMAIN sch |-> Samples[picks[i]][sch[j].field]]]]]

RawTables ==
  {RawTable(sch, picks) :
     sch \in Schemas,
     picks \in UNION {[1..n -> DOMAIN Samples] : n \in 0..MaxRows}}

Paths ==
  {<<"data/", "sales_data_sample", ".csv">>,
   <<"data/", "sales_data_sample", ".XLSX">>,
   <<"data/", "sales_data_sample", ".xls">>,
   <<"data/", "sales_data_sample", ".txt">>}

\* ------------------------------------------------------------------ LOAD DATA
\* str.lower() on one piece of a path
lower(piece) ==
  CASE piece = ".CSV" -> ".csv"
    [] piece = ".XLSX" -> ".xlsx"
    [] piece = ".XLS" -> ".xls"
    [] piece = ".TXT" -> ".txt"
    [] OTHER -> piece

\* path.lower().endswith(suffix)
endswith_lower(p, suffix) == p # <<>> /\ lower(p[Len(p)]) = suffix

\* load_data(path) of a file that holds table `content`: [err, ret]
load_data(p, content) ==
  IF endswith_lower(p, ".csv") THEN [err |-> "none", ret |-> content]
  ELSE IF endswith_lower(p, ".xlsx") \/ endswith_lower(p, ".xls")
       THEN [err |-> "none", ret |-> content]
  ELSE [err |-> "ValueError", ret |-> NoTable]

\* ------------------------------------------------------------------ TEXT REPORT
Line(k, v) == [k |-> k, v |-> v]

\* Series.idxmax() / idxmin(): the first position of the largest / smallest total
idxmax(s) == CHOOSE i \in DOMAIN s :
  (\A j \in DOMAIN s : s[j].total <= s[i].total) /\ (\A j \in 1..(i - 1) : s[j].total < s[i].total)

idxmin(s) == CHOOSE i \in DOMAIN s :
  (\A j \in DOMAIN s : s[j].total >= s[i].total) /\ (\A j \in 1..(i - 1) : s[j].total > s[i].total)

\* the lines print_report writes, in order
print_report(st, top, monthly) ==
  <<Line("rule", 60), Line("title", 0), Line("rule", 60),
    Line("total_rows", st.total_rows), Line("total_revenue", st.total_revenue),
    Line("avg_order_value", st.avg_order_value)>>
  \o (IF ~st.unique_products.none THEN <<Line("unique_products", st.unique_products)>>
      ELSE <<>>)
  \o <<Line("blank", 0)>>
  \o (IF top # <<>>
      THEN <<Line("top_title", 0)>>
           \o [i \in DOMAIN head(top, ReportTop) |-> Line("product", top[i])]
           \o <<Line("blank", 0)>>
      ELSE <<>>)
  \o (IF monthly # <<>>
      THEN <<Line("monthly_title", 0), Line("best", monthly[idxmax(monthly)]),
             Line("worst", monthly[idxmin(monthly)]), Line("blank", 0)>>
      ELSE <<>>)
  \o <<Line("end", 0), Line("rule", 60)>>

\* ------------------------------------------------------------------ calls
\* The functions of the module called one at a time: clean_data on the raw table,
\* add_time_features on the cleaned one, the aggregations on either result.  `call`
\* records the last call: its argument before (arg) and after (argAfter) the call,
\* and what it returned or raised.
NoCall == [fn |-> "none"]

Called(fn, n, t, after, e, ret) ==
  [fn |-> fn, n |-> n, arg |-> t, argAfter |-> after, err |-> e, ret |-> ret]

Init ==
  /\ raw \in RawTables
  /\ df = raw
  /\ stage = "raw"
  /\ call = NoCall
  /\ path = <<>>
  /\ pc = "idle"
  /\ trace = <<>>
  /\ stats = NoStats
  /\ top_products = <<>>
  /\ monthly_sales = <<>>
  /\ out = <<>>
  /\ charts = 0
  /\ err = "none"

CallClean ==
  /\ stage = "raw"
  /\ LET r == clean_data(df)
     IN /\ call' = Called("clean_data", 0, df, r.arg, r.err, r.ret)
        /\ df' = r.ret
  /\ stage' = "clean"
  /\ UNCHANGED <<raw, mainVars>>

CallAddTimeFeatures ==
  /\ stage = "clean"
  /\ LET r == add_time_features(df)
     IN /\ call' = Called("add_time_features", 0, df, r.arg, r.err, r.ret)
        /\ df' = IF r.err = "none" THEN r.ret ELSE df
        /\ stage' = IF r.err = "none" THEN "featured" ELSE stage
  /\ UNCHANGED <<raw, mainVars>>

CallTopProducts ==
  /\ stage \in {"clean", "featured"}
  /\ \E n \in 1..MaxN : \E r \in get_top_products(df, n) :
       call' = Called("get_top_products", n, df, df, r.err, r.ret)
  /\ UNCHANGED <<raw, df, stage, mainVars>>

CallMonthlyTrends ==
  /\ stage \in {"clean", "featured"}
  /\ LET r == get_monthly_trends(df)
     IN call' = Called("get_monthly_trends", 0, df, df, r.err, r.ret)
  /\ UNCHANGED <<raw, df, stage, mainVars>>

CallBasicStats ==
  /\ stage \in {"clean", "featured"}
  /\ LET r == get_basic_stats(df)
     IN call' = Called("get_basic_stats", 0, df, df, r.err, r.ret)
  /\ UNCHANGED <<raw, df, stage, mainVars>>

Next ==
  \/ CallClean
  \/ CallAddTimeFeatures
  \/ CallTopProducts
  \/ CallMonthlyTrends
  \/ CallBasicStats

Spec == Init /\ [][Next]_vars

\* ------------------------------------------------------------------ MAIN
StageOrder ==
  <<"load", "clean", "features", "stats", "top", "monthly", "report",
    "plot_monthly", "plot_top">>

StageAfter(order, st) ==
  LET i == CHOOSE k \in DOMAIN order : order[k] = st
  IN IF i = Len(order) THEN "done" ELSE order[i + 1]

\* fault: the report is printed before the product and monthly aggregations
NextStage_report_early(st) ==
  StageAfter(<<"load", "clean", "features", "stats", "report", "top", "monthly",
               "plot_monthly", "plot_top">>, st)

\* the statement main runs after stage st returns
NextStage(st) == StageAfter(StageOrder, st)

\* an exception leaves main: nothing after the raising statement runs
Raise(e) == /\ err' = e
            /\ pc' = "halted"

Return(st) == /\ err' = err
              /\ pc' = NextStage(st)

MainInit ==
  /\ raw \in RawTables
  /\ path \in Paths
  /\ df = NoTable
  /\ stage = "main"
  /\ call = NoCall
  /\ pc = "load"
  /\ trace = <<>>
  /\ stats = NoStats
  /\ top_products = <<>>
  /\ monthly_sales = <<>>
  /\ out = <<>>
  /\ charts = 0
  /\ err = "none"

Load ==
  /\ pc = "load"
  /\ trace' = Append(trace, "load")
  /\ LET r == load_data(path, raw)
     IN /\ df' = r.ret
        /\ IF r.err # "none" THEN Raise(r.err) ELSE Return("load")
  /\ UNCHANGED <<raw, stage, call, path, stats, top_products, monthly_sales, out, charts>>

Clean ==
  /\ pc = "clean"
  /\ trace' = Append(trace, "clean")
  /\ LET r == clean_data(df)
     IN /\ df' = IF r.err = "none" THEN r.ret ELSE df
        /\ IF r.err # "none" THEN Raise(r.err) ELSE Return("clean")
  /\ UNCHANGED <<raw, stage, call, path, stats, top_products, monthly_sales, out, charts>>

AddTimeFeatures ==
  /\ pc = "features"
  /\ trace' = Append(trace, "features")
  /\ LET r == add_time_features(df)
     IN /\ df' = IF r.err = "none" THEN r.ret ELSE df
        /\ IF r.err # "none" THEN Raise(r.err) ELSE Return("features")
  /\ UNCHANGED <<raw, stage, call, path, stats, top_products, monthly_sales, out, charts>>

BasicStats ==
  /\ pc = "stats"
  /\ trace' = Append(trace, "stats")
  /\ LET r == get_basic_stats(df)
     IN /\ stats' = r.ret
        /\ IF r.err # "none" THEN Raise(r.err) ELSE Return("stats")
  /\ UNCHANGED <<raw, df, stage, call, path, top_products, monthly_sales, out, charts>>

TopProducts ==
  /\ pc = "top"
  /\ trace' = Append(trace, "top")
  /\ \E r \in get_top_products(df, TopN) :
        /\ top_products' = r.ret
        /\ IF r.err # "none" THEN Raise(r.err) ELSE Return("top")
  /\ UNCHANGED <<raw, df, stage, call, path, stats, monthly_sales, out, charts>>

MonthlyTrends ==
  /\ pc = "monthly"
  /\ trace' = Append(trace, "monthly")
  /\ LET r == get_monthly_trends(df)
     IN /\ monthly_sales' = r.ret
        /\ IF r.err # "none" THEN Raise(r.err) ELSE Return("monthly")
  /\ UNCHANGED <<raw, df, stage, call, path, stats, top_products, out, charts>>

PrintReport ==
  /\ pc = "report"
  /\ trace' = Append(trace, "report")
  /\ out' = out \o print_report(stats, top_products, monthly_sales)
  /\ Return("report")
  /\ UNCHANGED <<raw, df, stage, call, path, stats, top_products, monthly_sales, charts>>

\* plot_monthly_trends: a message when there is nothing to plot, else one chart
PlotMonthlyTrends ==
  /\ pc = "plot_monthly"
  /\ trace' = Append(trace, "plot_monthly")
  /\ out' = IF monthly_sales = <<>> THEN Append(out, Line("no_monthly", 0)) ELSE out
  /\ charts' = IF monthly_sales = <<>> THEN charts ELSE charts + 1
  /\ Return("plot_monthly")
  /\ UNCHANGED <<raw, df, stage, call, path, stats, top_products, monthly_sales>>

\* plot_top_products: a message when there is nothing to plot, else one chart
PlotTopProducts ==
  /\ pc = "plot_top"
  /\ trace' = Append(trace, "plot_top")
  /\ out' = IF top_products = <<>> THEN Append(out, Line("no_top", 0)) ELSE out
  /\ charts' = IF top_products = <<>> THEN charts ELSE charts + 1
  /\ Return("plot_top")
  /\ UNCHANGED <<raw, df, stage, call, path, stats, top_products, monthly_sales>>

MainNext ==
  \/ Load
  \/ Clean
  \/ AddTimeFeatures
  \/ BasicStats
  \/ TopProducts
  \/ MonthlyTrends
  \/ PrintReport
  \/ PlotMonthlyTrends
  \/ PlotTopProducts

MainSpec == MainInit /\ [][MainNext]_vars

\* ------------------------------------------------------------------ properties
\* the raw table has a column whose stripped label is name
RawHas(t, name) == \E i \in 1..Len(t.columns) : strip(t.columns[i]) = name

RawCell(t, r, name) ==
  r.values[CHOOSE i \in 1..Len(t.columns) : strip(t.columns[i]) = name]

\* a raw value read as a number, unparseable or missing counting as 0
AsNumber(x) == IF to_numeric(x).t = "num" THEN to_numeric(x).v ELSE 0

RevenueKnown(t) ==
  RawHas(t, SALES_COLUMN) \/ (RawHas(t, QTY_COLUMN) /\ RawHas(t, PRICE_COLUMN))

\* the revenue clean_data works with for raw row r: the supplied one, else qty x price
RawRevenue(t, r) ==
  IF RawHas(t, SALES_COLUMN) THEN AsNumber(RawCell(t, r, SALES_COLUMN))
  ELSE AsNumber(RawCell(t, r, QTY_COLUMN)) * AsNumber(RawCell(t, r, PRICE_COLUMN))

\* the raw row a cleaned row came from (row labels start at 0)
RawRow(t, r) == t.rows[r.index + 1]

RECURSIVE RevenueWhere(_, _, _, _)
\* the sum of revenue over the first i rows of t whose column name holds k
RevenueWhere(t, name, k, i) ==
  IF i = 0 THEN 0
  ELSE RevenueWhere(t, name, k, i - 1)
       + (IF Cell(t, t.rows[i], name) = k THEN Cell(t, t.rows[i], SALES_COLUMN).v ELSE 0)

RowsWhere(t, name, k) == {i \in DOMAIN t.rows : Cell(t, t.rows[i], name) = k}

CleanCall == call.fn = "clean_data"

\* C1: when the raw table has a revenue column, or quantity and price columns to
\* derive it from, every row clean_data returns has a numeric revenue > 0, and no
\* raw row whose revenue is 0, negative or unparseable is among the returned rows.
C1_CleanedRevenuePositive ==
  (CleanCall /\ RevenueKnown(call.arg)) =>
    /\ call.err = "none"
    /\ HasCol(call.ret, SALES_COLUMN)
    /\ \A i \in DOMAIN call.ret.rows :
         LET v == Cell(call.ret, call.ret.rows[i], SALES_COLUMN)
         IN v.t = "num" /\ v.v > 0
    /\ \A k \in DOMAIN call.arg.rows :
         RawRevenue(call.arg, call.arg.rows[k]) <= 0 =>
           \A i \in DOMAIN call.ret.rows : call.ret.rows[i].index # call.arg.rows[k].index

C1_Witness ==
  /\ CleanCall /\ RevenueKnown(call.arg)
  /\ Len(call.ret.rows) >= 2
  /\ \E k \in DOMAIN call.arg.rows : RawRevenue(call.arg, call.arg.rows[k]) < 0
  /\ \E i \in 1..Len(call.arg.columns) :
       call.arg.columns[i] # strip(call.arg.columns[i])

TopCall == call.fn = "get_top_products" /\ call.err = "none"

\* C2: get_top_products(table, n) with n >= 1 returns at most n entries, all the
\* groups when n is at least their number, in non-increasing order of total, one
\* entry per product at most, each total the sum of revenue over the table's rows
\* with that product.
C2_TopProducts ==
  TopCall =>
    LET t == call.arg
        res == call.ret
        groups == GroupKeys(t, PRODUCT_COLUMN)
    IN /\ Len(res) <= call.n
       /\ Len(res) = (IF call.n >= Cardinality(groups) THEN Cardinality(groups) ELSE call.n)
       /\ \A i \in 1..(Len(res) - 1) : res[i].total >= res[i + 1].total
       /\ \A i, j \in DOMAIN res : i # j => res[i].key # res[j].key
       /\ \A i \in DOMAIN res :
            /\ res[i].key \in groups
            /\ res[i].total = RevenueWhere(t, PRODUCT_COLUMN, res[i].key, Len(t.rows))
       /\ \A i \in DOMAIN res : \A k \in groups :
            (\A j \in DOMAIN res : res[j].key # k) =>
               RevenueWhere(t, PRODUCT_COLUMN, k, Len(t.rows)) <= res[i].total

C2_Witness ==
  /\ TopCall
  /\ Len(call.ret) = call.n
  /\ Cardinality(GroupKeys(call.arg, PRODUCT_COLUMN)) > call.n
  /\ \E i \in DOMAIN call.ret :
       Cardinality(RowsWhere(call.arg, PRODUCT_COLUMN, call.ret[i].key)) >= 2

MonthlyCall == call.fn = "get_monthly_trends" /\ call.err = "none"

\* C3: get_monthly_trends of a featured table returns exactly one entry per
\* distinct YearMonth bucket, in strictly ascending order of the bucket text, each
\* total the sum of revenue over the rows of that bucket.
C3_MonthlyTrends ==
  MonthlyCall =>
    LET t == call.arg
        res == call.ret
        buckets == {Cell(t, t.rows[i], <<"YearMonth">>) : i \in DOMAIN t.rows}
    IN /\ {res[i].key : i \in DOMAIN res} = buckets
       /\ Len(res) = Cardinality(buckets)
       /\ \A i \in 1..(Len(res) - 1) : StrLess(res[i].key.s, res[i + 1].key.s)
       /\ \A i \in DOMAIN res :
            res[i].total = RevenueWhere(t, <<"YearMonth">>, res[i].key, Len(t.rows))

C3_Witness ==
  /\ MonthlyCall
  /\ Len(call.ret) >= 2
  /\ \E i \in DOMAIN call.ret :
       Cardinality(RowsWhere(call.arg, <<"YearMonth">>, call.ret[i].key)) >= 2

DerivedCase(t) ==
  ~RawHas(t, SALES_COLUMN) /\ RawHas(t, QTY_COLUMN) /\ RawHas(t, PRICE_COLUMN)

\* C4: when the raw table has no revenue column but quantity and price columns,
\* every row clean_data returns has revenue = quantity x price of its raw row, an
\* unparseable quantity or price counting as 0.
C4_DerivedRevenue ==
  (CleanCall /\ DerivedCase(call.arg)) =>
    /\ HasCol(call.ret, SALES_COLUMN)
    /\ \A i \in DOMAIN call.ret.rows :
         LET r == call.ret.rows[i]
             src == RawRow(call.arg, r)
         IN Cell(call.ret, r, SALES_COLUMN) =
              Num(AsNumber(RawCell(call.arg, src, QTY_COLUMN))
                  * AsNumber(RawCell(call.arg, src, PRICE_COLUMN)))

C4_Witness ==
  /\ CleanCall /\ DerivedCase(call.arg)
  /\ \E i \in DOMAIN call.ret.rows :
       RawCell(call.arg, RawRow(call.arg, call.ret.rows[i]), QTY_COLUMN).t = "str"
  /\ \E k \in DOMAIN call.arg.rows :
       /\ RawCell(call.arg, call.arg.rows[k], QTY_COLUMN).t = "str"
       /\ to_numeric(RawCell(call.arg, call.arg.rows[k], QTY_COLUMN)) = Null

FeaturedCall == call.fn = "add_time_features" /\ call.err = "none"

\* text is the zero-padded "YYYY-MM" of year y and month m
IsBucketOf(text, y, m) ==
  /\ Len(text) = 7
  /\ text[5] = "-"
  /\ AllDigits(SubSeq(text, 1, 4)) /\ DigitsVal(SubSeq(text, 1, 4)) = y
  /\ AllDigits(SubSeq(text, 6, 7)) /\ DigitsVal(SubSeq(text, 6, 7)) = m

\* C5: for a raw table with a date column, no row of
\* add_time_features(clean_data(raw)) comes from a raw row whose date is missing or
\* unparseable, and every row has Year and Month (1..12) of its parsed date and
\* YearMonth the zero-padded "YYYY-MM" of that year and month.
C5_TimeFeatures ==
  (FeaturedCall /\ RawHas(raw, DATE_COLUMN)) =>
    \A i \in DOMAIN call.ret.rows :
      LET r == call.ret.rows[i]
          d == to_datetime(RawCell(raw, RawRow(raw, r), DATE_COLUMN))
      IN /\ d # Null
         /\ Cell(call.ret, r, <<"Year">>) = Num(d.y)
         /\ Cell(call.ret, r, <<"Month">>) = Num(d.m)
         /\ d.m \in 1..12
         /\ Cell(call.ret, r, <<"YearMonth">>).t = "str"
         /\ IsBucketOf(Cell(call.ret, r, <<"YearMonth">>).s, d.y, d.m)

C5_Witness ==
  /\ FeaturedCall /\ RawHas(raw, DATE_COLUMN)
  /\ Len(call.ret.rows) >= 1
  /\ \E k \in DOMAIN raw.rows :
       /\ RawCell(raw, raw.rows[k], DATE_COLUMN).t = "str"
       /\ to_datetime(RawCell(raw, raw.rows[k], DATE_COLUMN)) = Null
  /\ \E k \in DOMAIN raw.rows : RawCell(raw, raw.rows[k], DATE_COLUMN) = Null

StatsCall == call.fn = "get_basic_stats" /\ call.err = "none"

\* C6: get_basic_stats of a table with a revenue column and no rows returns row
\* count 0, total revenue 0 and the not-a-number average; of a table with rows, an
\* average equal to total revenue / row count.
C6_BasicStats ==
  StatsCall =>
    LET st == call.ret
        rows == Len(call.arg.rows)
    IN /\ st.total_rows = rows
       /\ rows = 0 => (st.total_revenue = 0 /\ st.avg_order_value.nan)
       /\ rows > 0 => /\ ~st.avg_order_value.nan
                      /\ st.avg_order_value.num * rows
                           = st.total_revenue * st.avg_order_value.den

C6_Witness ==
  /\ StatsCall
  /\ Len(call.arg.rows) = 0
  /\ Len(raw.rows) >= 2

NoRevenueInputs(t) ==
  ~RawHas(t, SALES_COLUMN) /\ ~(RawHas(t, QTY_COLUMN) /\ RawHas(t, PRICE_COLUMN))

\* C7: when the raw table has no revenue column and lacks the quantity or the price
\* column, clean_data returns without raising a table without revenue column, and
\* get_basic_stats, get_top_products and get_monthly_trends on it (or on its
\* featured table) each raise the missing-column error.
C7_MissingRevenue ==
  NoRevenueInputs(raw) =>
    /\ CleanCall => (call.err = "none" /\ ~HasCol(call.ret, SALES_COLUMN))
    /\ stage \in {"clean", "featured"} => ~HasCol(df, SALES_COLUMN)
    /\ call.fn \in {"get_basic_stats", "get_top_products", "get_monthly_trends"} =>
         call.err = "KeyError"

C7_Witness ==
  /\ NoRevenueInputs(raw)
  /\ stage = "featured"
  /\ call.fn = "get_monthly_trends"
  /\ call.err = "KeyError"
  /\ HasCol(call.arg, <<"YearMonth">>)
  /\ Len(call.arg.rows) >= 1

IsPrefix(s, t) == Len(s) <= Len(t) /\ \A i \in DOMAIN s : s[i] = t[i]

\* C8: main runs its stages in the order load, clean, time features, basic stats,
\* top products, monthly trends, report, plots; when a stage raises, main stops at
\* that stage with no line printed and no chart rendered.
C8_MainOrder ==
  /\ IsPrefix(trace, StageOrder)
  /\ err # "none" => /\ pc = "halted"
                     /\ out = <<>>
                     /\ charts = 0
  /\ pc = "halted" => err # "none"
  /\ (out # <<>> \/ charts > 0) => IsPrefix(SubSeq(StageOrder, 1, 7), trace)

C8_Witness ==
  /\ err = "KeyError"
  /\ trace = <<"load", "clean", "features", "stats", "top">>
  /\ Len(df.rows) >= 1
  /\ out = <<>>

\* C9: no function changes the table it is given: after every call the caller's
\* table has the columns, rows and values it had before the call.
C9_ArgumentUnchanged ==
  call.fn # "none" => call.argAfter = call.arg

C9_Witness ==
  /\ CleanCall
  /\ call.argAfter = call.arg
  /\ call.ret.columns # call.arg.columns
  /\ Len(call.ret.rows) < Len(call.arg.rows)
  /\ Len(call.ret.rows) >= 1

\* raw row r survives cleaning: not empty, its date (if any) parses, its revenue
\* (if any) is > 0
Survives(t, r) ==
  /\ ~AllNull(r)
  /\ RawHas(t, DATE_COLUMN) => to_datetime(RawCell(t, r, DATE_COLUMN)) # Null
  /\ RevenueKnown(t) => RawRevenue(t, r) > 0

\* C10: clean_data never raises, and its rows are exactly the raw rows that are not
\* all-null, whose date parses and whose revenue is > 0, in their order; a
\* quantity or price that does not parse is 0 in the result, never null, and does
\* not by itself remove the row.
C10_CoercionKeepsRows ==
  CleanCall =>
    LET t == call.arg
        res == call.ret
    IN /\ call.err = "none"
       /\ {res.rows[i].index : i \in DOMAIN res.rows}
            = {t.rows[k].index : k \in {j \in DOMAIN t.rows : Survives(t, t.rows[j])}}
       /\ \A i \in 1..(Len(res.rows) - 1) : res.rows[i].index < res.rows[i + 1].index
       /\ \A i \in DOMAIN res.rows : \A c \in {QTY_COLUMN, PRICE_COLUMN} :
            RawHas(t, c) =>
              Cell(res, res.rows[i], c) = Num(AsNumber(RawCell(t, RawRow(t, res.rows[i]), c)))

C10_Witness ==
  /\ CleanCall
  /\ RawHas(call.arg, DATE_COLUMN)
  /\ RawHas(call.arg, QTY_COLUMN)
  /\ \E i \in DOMAIN call.ret.rows :
       LET q == RawCell(call.arg, RawRow(call.arg, call.ret.rows[i]), QTY_COLUMN)
       IN q.t = "str" /\ to_numeric(q) = Null
  /\ Len(call.ret.rows) < Len(call.arg.rows)

====
